---- MODULE Spec2Model ----
(***************************************************************************)
(* FolderIndexer (src/src/main.rs): a ledger mapping relative paths to     *)
(* content digests, reconciled against a discovered file tree by the main  *)
(* thread or by a pool of worker threads sharing a queue, the ledger and a *)
(* mismatch flag.                                                          *)
(*                                                                         *)
(* Text is modelled as a sequence of code points, so that the ledger file  *)
(* written by save and parsed by load is real text.  A path and a digest   *)
(* are such sequences too.  An optional value is <<>> (None) or <<v>>.     *)
(***************************************************************************)
EXTENDS Integers, Sequences, FiniteSets, TLC

\* ---------------------------------------------------------------- bounds
\* largest worker pool (--processes) that is explored
MaxWorkers == 2
\* number of files of the large tree (enough to cross the flush threshold)
NumBulk == 12
\* number of successive runs of the program on the same tree
MaxRuns == 2
\* number of files of the tree of the runs checked for termination
NumLive == 3

\* ------------------------------------------------------ program constants
\* ' ' : the separator of split_once and of format!("{h} {p}")
SP == 32
\* '\n' : the separator written by save and split on by lines()
LF == 10
\* '\r' : stripped by lines() at the end of a line
CR == 13
\* process_file saves when num_changes() > 10
Threshold == 10

\* Unicode White_Space restricted to ASCII, as stripped by str::trim
WhiteSpace == {9, 10, 11, 12, 13, SP}

None == <<>>
Some(v) == <<v>>

\* ------------------------------------------------------------- text helpers
Last(s) == s[Len(s)]
DropLast(s) == SubSeq(s, 1, Len(s) - 1)

\* index of the first occurrence of ch in s (0 when there is none)
find(s, ch) ==
    IF \E i \in 1..Len(s) : s[i] = ch
    THEN CHOOSE i \in 1..Len(s) : s[i] = ch /\ \A j \in 1..(i - 1) : s[j] # ch
    ELSE 0

\* s.split(ch): the segments between occurrences of ch
RECURSIVE split(_, _)
split(s, ch) ==
    LET i == find(s, ch)
    IN IF i = 0 THEN <<s>>
       ELSE <<SubSeq(s, 1, i - 1)>> \o split(SubSeq(s, i + 1, Len(s)), ch)

\* str::lines: split on '\n', no final empty line, a trailing '\r' removed
lines(s) ==
    LET segs == split(s, LF)
        kept == IF Last(segs) = <<>> THEN DropLast(segs) ELSE segs
    IN [i \in 1..Len(kept) |->
          IF kept[i] # <<>> /\ Last(kept[i]) = CR THEN DropLast(kept[i]) ELSE kept[i]]

RECURSIVE trim_start(_)
trim_start(s) ==
    IF s # <<>> /\ s[1] \in WhiteSpace THEN trim_start(Tail(s)) ELSE s

RECURSIVE trim_end(_)
trim_end(s) ==
    IF s # <<>> /\ Last(s) \in WhiteSpace THEN trim_end(DropLast(s)) ELSE s

\* str::trim
trim(s) == trim_end(trim_start(s))

\* str::split_once(' '): Some((before, after)) of the first separator
split_once(s, ch) ==
    LET i == find(s, ch)
    IN IF i = 0 THEN None
       ELSE Some(<<SubSeq(s, 1, i - 1), SubSeq(s, i + 1, Len(s))>>)

\* Ord of paths, taken as the lexicographic order of their text
RECURSIVE path_lt(_, _)
path_lt(a, b) ==
    IF b = <<>> THEN FALSE
    ELSE IF a = <<>> THEN TRUE
    ELSE IF a[1] # b[1] THEN a[1] < b[1]
    ELSE path_lt(Tail(a), Tail(b))

\* the paths of S in descending order
RECURSIVE sort_desc(_)
sort_desc(S) ==
    IF S = {} THEN <<>>
    ELSE LET m == CHOOSE x \in S : \A y \in S \ {x} : path_lt(y, x)
         IN <<m>> \o sort_desc(S \ {m})

\* file_list.sort_by(|a, b| a.0.cmp(b.0)): the paths of S in ascending order,
\* the i-th being the path that has i - 1 smaller ones
sort_by(S) ==
    [i \in 1..Cardinality(S) |->
        CHOOSE x \in S : Cardinality({y \in S : path_lt(y, x)}) = i - 1]

\* format!("{h} {p}")
format_line(h, p) == h \o <<SP>> \o p

\* .reduce(|a, b| format!("{a}\n{b}")).unwrap_or(String::new())
RECURSIVE join_lines(_)
join_lines(ls) ==
    IF ls = <<>> THEN <<>>
    ELSE IF Len(ls) = 1 THEN ls[1]
    ELSE ls[1] \o <<LF>> \o join_lines(Tail(ls))

\* ------------------------------------------------------------ FileDatabase
EmptyMap == [p \in {} |-> <<>>]

\* HashMap::insert: the last value inserted for a key wins
insert(m, k, v) == (k :> v) @@ m

remove(m, k) == [p \in (DOMAIN m) \ {k} |-> m[p]]

\* FileDatabase::new
new == [files |-> EmptyMap, change_count |-> 0]

RECURSIVE collect(_, _)
collect(pairs, m) ==
    IF pairs = <<>> THEN m
    ELSE collect(Tail(pairs), insert(m, Head(pairs)[1], Head(pairs)[2]))

\* the (path, digest) pairs of the lines that have a separator
RECURSIVE filter_map(_)
filter_map(ls) ==
    IF ls = <<>> THEN <<>>
    ELSE LET r == split_once(trim(Head(ls)), SP)
         IN (IF r = None THEN <<>> ELSE <<(<<r[1][2], r[1][1]>>)>>)
            \o filter_map(Tail(ls))

\* FileDatabase::load
load(text) == [files |-> collect(filter_map(lines(text)), EmptyMap), change_count |-> 0]

\* add_file that counts a change only when the path is new
add_file_new_only(db, f, hash) ==
    [files |-> insert(db.files, f, hash),
     change_count |-> db.change_count + (IF f \in DOMAIN db.files THEN 0 ELSE 1)]

\* FileDatabase::add_file
add_file(db, f, hash) ==
    [files |-> insert(db.files, f, hash), change_count |-> db.change_count + 1]

\* FileDatabase::get_hash
get_hash(db, f) == IF f \in DOMAIN db.files THEN Some(db.files[f]) ELSE None

\* FileDatabase::save, lines 130-141: the text written, one "<digest> <path>"
\* line per entry, sorted by path
save_text(db) ==
    LET file_list == sort_by(DOMAIN db.files)
    IN join_lines([i \in 1..Len(file_list) |->
                      format_line(db.files[file_list[i]], file_list[i])])

\* FileDatabase::save, line 143: the counter is reset after the write
save_reset(db) == [db EXCEPT !.change_count = 0]

\* FileDatabase::truncate_to_existing: one removal and one count per stale key
RECURSIVE remove_all(_, _)
remove_all(db, ks) ==
    IF ks = {} THEN db
    ELSE LET k == CHOOSE x \in ks : TRUE
         IN remove_all([files |-> remove(db.files, k),
                        change_count |-> db.change_count + 1], ks \ {k})

\* truncate_to_existing that counts one change for the whole prune
truncate_counts_once(db, files) ==
    LET stale == {k \in DOMAIN db.files : k \notin files}
    IN [files |-> [p \in (DOMAIN db.files) \ stale |-> db.files[p]],
        change_count |-> db.change_count + (IF stale = {} THEN 0 ELSE 1)]

\* truncate_to_existing that removes nothing
truncate_keeps_all(db, files) == db

truncate_to_existing(db, files) ==
    remove_all(db, {k \in DOMAIN db.files : k \notin files})

num_changes(db) == db.change_count

\* has_changes that overlooks a single change
has_changes_many(db) == db.change_count > 1

has_changes(db) == db.change_count # 0

\* the content of a file that cannot be opened or read
Unreadable == <<>>

\* compute_hash, lines 72 and 79: File::open or read fails and unwrap panics
read_fails(tree, p) == tree[p] = Unreadable

\* compute_hash: the digest of the file's content, as lower-case hex text
compute_hash(tree, p) == tree[p]

\* VecDeque::pop_front that hands out the last element without removing it
pop_front_keeps_last(q) ==
    IF q = <<>> THEN [val |-> None, rest |-> q]
    ELSE [val |-> Some(Head(q)), rest |-> IF Len(q) > 1 THEN Tail(q) ELSE q]

\* VecDeque::pop_front that also drops the element behind the one it returns
pop_front_skip(q) ==
    IF q = <<>> THEN [val |-> None, rest |-> q]
    ELSE [val |-> Some(Head(q)), rest |-> IF Len(q) > 1 THEN Tail(Tail(q)) ELSE <<>>]

\* VecDeque::pop_front
pop_front(q) ==
    IF q = <<>> THEN [val |-> None, rest |-> q]
    ELSE [val |-> Some(Head(q)), rest |-> Tail(q)]

\* ThreadArgs::new: the ledger is loaded when the file exists, else created
ThreadArgs_new(d) == IF d.exists THEN load(d.text) ELSE new

\* decide that also overwrites the stored digest under the Check policy
decide_check_updates(action, existing, fresh) ==
    IF existing # None
    THEN IF action # "Nothing" /\ fresh # existing[1]
         THEN [db_hash |-> Some(fresh), fail |-> (action = "Check")]
         ELSE [db_hash |-> None, fail |-> FALSE]
    ELSE [db_hash |-> Some(fresh), fail |-> FALSE]

\* decide that records the stored digest instead of the fresh one on an update
decide_records_old(action, existing, fresh) ==
    IF existing # None
    THEN IF action # "Nothing" /\ fresh # existing[1]
         THEN IF action = "Update"
              THEN [db_hash |-> existing, fail |-> FALSE]
              ELSE [db_hash |-> None, fail |-> TRUE]
         ELSE [db_hash |-> None, fail |-> FALSE]
    ELSE [db_hash |-> Some(fresh), fail |-> FALSE]

\* decide that adds a new path only when the policy is not Check
decide_check_skips_new(action, existing, fresh) ==
    IF existing # None
    THEN IF action # "Nothing" /\ fresh # existing[1]
         THEN IF action = "Update"
              THEN [db_hash |-> Some(fresh), fail |-> FALSE]
              ELSE [db_hash |-> None, fail |-> TRUE]
         ELSE [db_hash |-> None, fail |-> FALSE]
    ELSE IF action = "Check" THEN [db_hash |-> None, fail |-> FALSE]
    ELSE [db_hash |-> Some(fresh), fail |-> FALSE]

\* decide that raises the mismatch flag on every difference, whatever the policy
decide_always_fails(action, existing, fresh) ==
    IF existing # None
    THEN IF action # "Nothing" /\ fresh # existing[1]
         THEN IF action = "Update"
              THEN [db_hash |-> Some(fresh), fail |-> TRUE]
              ELSE [db_hash |-> None, fail |-> TRUE]
         ELSE [db_hash |-> None, fail |-> FALSE]
    ELSE [db_hash |-> Some(fresh), fail |-> FALSE]

\* process_file, lines 202-226: what to record and whether the run fails
decide(action, existing, fresh) ==
    IF existing # None
    THEN IF action # "Nothing" /\ fresh # existing[1]
         THEN IF action = "Update"
              THEN [db_hash |-> Some(fresh), fail |-> FALSE]
              ELSE [db_hash |-> None, fail |-> TRUE]
         ELSE [db_hash |-> None, fail |-> FALSE]
    ELSE [db_hash |-> Some(fresh), fail |-> FALSE]

\* process_file that computes a digest for every path
hashes_always(action, existing) == TRUE

\* process_file computes a digest unless the path is stored and the policy is Nothing
hashes(action, existing) == existing = None \/ action # "Nothing"

\* a flush check that fires one change later
flush_late(db) == num_changes(db) > Threshold + 1

\* process_file, line 235
flush_needed(db) == num_changes(db) > Threshold

\* the guard of a lock taken in one statement, kept alive after it
guard_kept(t) == Some(t)

\* the guard of `lock().unwrap()` used as a temporary (lines 201 and 274) is
\* dropped at the end of the statement
guard_dropped(t) == None

\* line 201: the ledger guard is a temporary of the lookup statement
lookup_guard(t) == guard_dropped(t)

\* line 274: the queue guard is a temporary of the pop statement
pop_guard(t) == guard_dropped(t)

\* a lock that never makes a thread wait
lock_ignored(l) == TRUE

\* Mutex::lock returns once no thread holds the guard
lock_free(l) == l = None

\* ------------------------------------------------------------------ inputs
ExistingFileAction == {"Nothing", "Check", "Update"}

D1 == <<100, 49>>
D2 == <<100, 50>>
Digests == {D1, D2}

\* the files "a" and "a " (a trailing space), and the stale ledger entry "z"
PA == <<97>>
PAS == <<97, SP>>
PZ == <<122>>
BulkPath(i) == <<98 + i>>
BulkNames == {BulkPath(i) : i \in 1..NumBulk}
Paths == {PA, PAS, PZ} \cup BulkNames

NoFile == [exists |-> FALSE, text |-> <<>>]
FileOf(m) == [exists |-> TRUE, text |-> save_text([files |-> m, change_count |-> 0])]

\* small trees: any subset of {"a", "a "}; ledger files over "a" and "z"
SmallTrees ==
    {[p \in S |-> IF p = PA THEN D1 ELSE D2] : S \in SUBSET {PA, PAS}}
SmallDisks ==
    {NoFile} \cup
    {FileOf(m) : m \in UNION {[T -> Digests] : T \in SUBSET {PA, PZ}}}
SmallInputs ==
    [tree : SmallTrees, disk : SmallDisks, existing : ExistingFileAction,
     processes : 0..MaxWorkers, remove_old_entries : BOOLEAN]

\* a large tree: either one file is stored with another digest next to a stale
\* entry and the run prunes, or there is no ledger file yet
BulkTree == [p \in BulkNames |-> D1]
BulkInputs ==
    [tree : {BulkTree}, disk : {FileOf(BulkPath(1) :> D2 @@ PZ :> D1)},
     existing : ExistingFileAction, processes : 0..MaxWorkers,
     remove_old_entries : {TRUE}]
    \cup
    [tree : {BulkTree}, disk : {NoFile}, existing : {"Nothing"},
     processes : 0..MaxWorkers, remove_old_entries : {FALSE}]

Inputs == SmallInputs \cup BulkInputs

\* the large tree with one file that cannot be read: with no ledger file the
\* file is hashed; stored in the ledger it is hashed under Check and not under
\* Nothing
IOTree == [p \in BulkNames |-> IF p = BulkPath(2) THEN Unreadable ELSE D1]
InputsIO ==
    [tree : {IOTree}, disk : {NoFile}, existing : {"Nothing"},
     processes : 0..MaxWorkers, remove_old_entries : {TRUE}]
    \cup
    [tree : {IOTree}, disk : {FileOf(BulkPath(2) :> D1 @@ PZ :> D1)},
     existing : {"Nothing", "Check"}, processes : 0..MaxWorkers,
     remove_old_entries : {TRUE}]

\* ------------------------------------------------------------------- state
Main == 0
Workers == 1..MaxWorkers
Threads == {Main} \cup Workers

VARIABLES
    args,                   \* Args: existing, processes, remove_old_entries
    fs,                     \* the file tree: path -> digest of its content
    files,                  \* main's files: the discovered path set
    disk,                   \* the ledger file args.db_file
    file_db,                \* ThreadArgs.file_db
    db_lock,                \* holder of the file_db mutex: None or Some(thread)
    input_queue,            \* ThreadArgs.input_queue
    queue_lock,             \* holder of the input_queue mutex
    fail_due_to_difference, \* ThreadArgs.fail_due_to_difference
    iter,                   \* the for loop of the single-threaded run
    pc,                     \* position of each thread
    cur,                    \* process_file's f, per thread
    existing_hash,          \* process_file's existing_hash, per thread
    db_hash,                \* process_file's db_hash, per thread
    exit_code,              \* None while running, Some(status) after exit
    run_no,                 \* which run of the program this is
    hist                    \* what happened in this run (observation only)

vars == <<args, fs, files, disk, file_db, db_lock, input_queue, queue_lock,
          fail_due_to_difference, iter, pc, cur, existing_hash, db_hash,
          exit_code, run_no, hist>>

inputs == <<args, fs, files>>
locals == <<cur, existing_hash, db_hash>>

\* nothing has happened yet in a run that starts on the ledger db
Hist0(db) ==
    [initial |-> db.files,
     flushed |-> db.files,
     records |-> [p \in Paths |-> <<>>],
     missed |-> {},
     hashed |-> [p \in Paths |-> 0],
     popped |-> [p \in Paths |-> 0],
     processed |-> [p \in Paths |-> 0],
     mutations |-> 0,
     flushes |-> 0,
     final_saves |-> 0,
     failed |-> FALSE]

\* the state of a freshly started process on the current disk and tree
Start(d, tree) ==
    /\ file_db' = ThreadArgs_new(d)
    /\ db_lock' = None
    /\ input_queue' = sort_by(DOMAIN tree)
    /\ queue_lock' = None
    /\ fail_due_to_difference' = FALSE
    /\ iter' = sort_by(DOMAIN tree)
    /\ pc' = [t \in Threads |-> IF t = Main THEN "start" ELSE "unspawned"]
    /\ cur' = [t \in Threads |-> <<>>]
    /\ existing_hash' = [t \in Threads |-> None]
    /\ db_hash' = [t \in Threads |-> None]
    /\ exit_code' = None
    /\ hist' = Hist0(ThreadArgs_new(d))

\* the first run, on one of the inputs of I
InitWith(I) ==
    \E i \in I :
        /\ args = [existing |-> i.existing, processes |-> i.processes,
                   remove_old_entries |-> i.remove_old_entries]
        /\ fs = i.tree
        /\ files = DOMAIN i.tree
        /\ disk = i.disk
        /\ file_db = ThreadArgs_new(i.disk)
        /\ db_lock = None
        /\ input_queue = sort_by(DOMAIN i.tree)
        /\ queue_lock = None
        /\ fail_due_to_difference = FALSE
        /\ iter = sort_by(DOMAIN i.tree)
        /\ pc = [t \in Threads |-> IF t = Main THEN "start" ELSE "unspawned"]
        /\ cur = [t \in Threads |-> <<>>]
        /\ existing_hash = [t \in Threads |-> None]
        /\ db_hash = [t \in Threads |-> None]
        /\ exit_code = None
        /\ run_no = 1
        /\ hist = Hist0(ThreadArgs_new(i.disk))

Init == InitWith(Inputs)

\* ------------------------------------------------------------------ actions
Returned(t) == IF t = Main THEN "for" ELSE "pop"

\* main, lines 263-284: run on the calling thread, or spawn the pool
Dispatch ==
    /\ pc[Main] = "start"
    /\ pc' = [t \in Threads |->
                IF t = Main THEN (IF args.processes = 0 THEN "for" ELSE "join")
                ELSE IF t <= args.processes THEN "pop" ELSE "unspawned"]
    /\ UNCHANGED <<inputs, queue_lock, disk, file_db, db_lock, input_queue,
                   fail_due_to_difference, iter, locals, exit_code, run_no, hist>>

\* main, lines 264-266: the next file of the single-threaded loop
ForNext ==
    /\ pc[Main] = "for"
    /\ IF iter = <<>>
       THEN /\ pc' = [pc EXCEPT ![Main] = "final"]
            /\ UNCHANGED <<iter, cur>>
       ELSE /\ cur' = [cur EXCEPT ![Main] = Head(iter)]
            /\ iter' = Tail(iter)
            /\ pc' = [pc EXCEPT ![Main] = "lookup"]
    /\ UNCHANGED <<inputs, queue_lock, disk, file_db, db_lock, input_queue,
                   fail_due_to_difference, existing_hash, db_hash, exit_code,
                   run_no, hist>>

\* worker, lines 273-281: pop one path under the queue lock, or leave the loop
Pop(w) ==
    /\ w \in Workers
    /\ pc[w] = "pop"
    /\ lock_free(queue_lock)
    /\ queue_lock' = pop_guard(w)
    /\ LET r == pop_front(input_queue)
       IN /\ input_queue' = r.rest
          /\ IF r.val # None
             THEN /\ cur' = [cur EXCEPT ![w] = r.val[1]]
                  /\ pc' = [pc EXCEPT ![w] = "lookup"]
                  /\ hist' = [hist EXCEPT !.popped[r.val[1]] = @ + 1]
             ELSE /\ pc' = [pc EXCEPT ![w] = "exited"]
                  /\ UNCHANGED <<cur, hist>>
    /\ UNCHANGED <<inputs, disk, file_db, db_lock, fail_due_to_difference,
                   iter, existing_hash, db_hash, exit_code, run_no>>

\* process_file, line 201: read the stored digest under the ledger lock
Lookup(t) ==
    /\ pc[t] = "lookup"
    /\ lock_free(db_lock)
    /\ existing_hash' = [existing_hash EXCEPT ![t] = get_hash(file_db, cur[t])]
    /\ db_lock' = lookup_guard(t)
    /\ hist' = [hist EXCEPT !.missed =
                  IF get_hash(file_db, cur[t]) = None THEN @ \cup {cur[t]} ELSE @,
                            !.processed[cur[t]] = @ + 1]
    /\ pc' = [pc EXCEPT ![t] = "decide"]
    /\ UNCHANGED <<inputs, queue_lock, disk, file_db, input_queue,
                   fail_due_to_difference, iter, cur, db_hash, exit_code,
                   run_no>>

\* process_file, lines 202-226: hash the file if needed and choose the action
Decide(t) ==
    /\ pc[t] = "decide"
    /\ ~(hashes(args.existing, existing_hash[t]) /\ read_fails(fs, cur[t]))
    /\ LET h == hashes(args.existing, existing_hash[t])
           d == IF h THEN decide(args.existing, existing_hash[t],
                                 compute_hash(fs, cur[t]))
                ELSE [db_hash |-> None, fail |-> FALSE]
       IN /\ db_hash' = [db_hash EXCEPT ![t] = d.db_hash]
          /\ fail_due_to_difference' = (IF d.fail THEN TRUE ELSE fail_due_to_difference)
          /\ hist' = [hist EXCEPT !.hashed[cur[t]] = @ + (IF h THEN 1 ELSE 0)]
    /\ pc' = [pc EXCEPT ![t] = "apply"]
    /\ UNCHANGED <<inputs, queue_lock, disk, file_db, db_lock, input_queue, iter, cur,
                   existing_hash, exit_code, run_no>>

\* process_file, lines 228-233: take the ledger lock and record the digest
Apply(t) ==
    /\ pc[t] = "apply"
    /\ lock_free(db_lock)
    /\ db_lock' = Some(t)
    /\ IF db_hash[t] # None
       THEN /\ file_db' = add_file(file_db, cur[t], db_hash[t][1])
            /\ hist' = [hist EXCEPT !.records[cur[t]] = Append(@, db_hash[t][1]),
                                    !.mutations = @ + 1]
       ELSE UNCHANGED <<file_db, hist>>
    /\ pc' = [pc EXCEPT ![t] = "flush"]
    /\ UNCHANGED <<inputs, queue_lock, disk, input_queue, fail_due_to_difference, iter,
                   locals, exit_code, run_no>>

\* process_file, lines 235-238: over the threshold, write the ledger file;
\* otherwise return, which releases the lock
Flush(t) ==
    /\ pc[t] = "flush"
    /\ IF flush_needed(file_db)
       THEN /\ disk' = [exists |-> TRUE, text |-> save_text(file_db)]
            /\ hist' = [hist EXCEPT !.flushed = file_db.files]
            /\ pc' = [pc EXCEPT ![t] = "saved"]
            /\ UNCHANGED <<db_lock, locals>>
       ELSE /\ db_lock' = None
            /\ pc' = [pc EXCEPT ![t] = Returned(t)]
            /\ cur' = [cur EXCEPT ![t] = <<>>]
            /\ existing_hash' = [existing_hash EXCEPT ![t] = None]
            /\ db_hash' = [db_hash EXCEPT ![t] = None]
            /\ UNCHANGED <<disk, hist>>
    /\ UNCHANGED <<inputs, queue_lock, file_db, input_queue, fail_due_to_difference, iter,
                   exit_code, run_no>>

\* FileDatabase::save, line 143, then process_file returns: the counter is
\* reset and the lock released
Saved(t) ==
    /\ pc[t] = "saved"
    /\ file_db' = save_reset(file_db)
    /\ hist' = [hist EXCEPT !.flushes = @ + 1, !.mutations = 0]
    /\ db_lock' = None
    /\ pc' = [pc EXCEPT ![t] = Returned(t)]
    /\ cur' = [cur EXCEPT ![t] = <<>>]
    /\ existing_hash' = [existing_hash EXCEPT ![t] = None]
    /\ db_hash' = [db_hash EXCEPT ![t] = None]
    /\ UNCHANGED <<inputs, queue_lock, disk, input_queue, fail_due_to_difference, iter,
                   exit_code, run_no>>

\* main, lines 286-288: every worker has left its loop
Join ==
    /\ pc[Main] = "join"
    /\ \A w \in Workers : w <= args.processes => pc[w] = "exited"
    /\ pc' = [pc EXCEPT ![Main] = "final"]
    /\ UNCHANGED <<inputs, queue_lock, disk, file_db, db_lock, input_queue,
                   fail_due_to_difference, iter, locals, exit_code, run_no, hist>>

\* main, lines 291-295: take the ledger lock and prune when asked to
Truncate ==
    /\ pc[Main] = "final"
    /\ lock_free(db_lock)
    /\ db_lock' = Some(Main)
    /\ IF args.remove_old_entries
       THEN /\ file_db' = truncate_to_existing(file_db, files)
            /\ hist' = [hist EXCEPT !.mutations =
                          @ + Cardinality((DOMAIN file_db.files) \ (DOMAIN file_db'.files))]
       ELSE UNCHANGED <<file_db, hist>>
    /\ pc' = [pc EXCEPT ![Main] = "final_save"]
    /\ UNCHANGED <<inputs, queue_lock, disk, input_queue, fail_due_to_difference, iter,
                   locals, exit_code, run_no>>

\* main, lines 297-299: the final save
FinalSave ==
    /\ pc[Main] = "final_save"
    /\ IF has_changes(file_db)
       THEN /\ file_db' = save_reset(file_db)
            /\ disk' = [exists |-> TRUE, text |-> save_text(file_db)]
            /\ hist' = [hist EXCEPT !.final_saves = @ + 1, !.mutations = 0,
                                    !.flushed = file_db.files]
       ELSE UNCHANGED <<file_db, disk, hist>>
    /\ pc' = [pc EXCEPT ![Main] = "exit"]
    /\ UNCHANGED <<inputs, queue_lock, db_lock, input_queue, fail_due_to_difference, iter,
                   locals, exit_code, run_no>>

\* main, lines 301-304: the exit status
Exit ==
    /\ pc[Main] = "exit"
    /\ exit_code' = Some(IF fail_due_to_difference THEN 1 ELSE 0)
    /\ pc' = [pc EXCEPT ![Main] = "done"]
    /\ UNCHANGED <<inputs, queue_lock, disk, file_db, db_lock, input_queue,
                   fail_due_to_difference, iter, locals, run_no, hist>>

\* the program is run again with the same arguments on the unchanged tree
Rerun ==
    /\ pc[Main] = "done"
    /\ run_no < MaxRuns
    /\ run_no' = run_no + 1
    /\ Start(disk, fs)
    /\ UNCHANGED <<inputs, disk>>

Next ==
    \/ Dispatch
    \/ ForNext
    \/ \E w \in Workers : Pop(w)
    \/ \E t \in Threads : Lookup(t)
    \/ \E t \in Threads : Decide(t)
    \/ \E t \in Threads : Apply(t)
    \/ \E t \in Threads : Flush(t)
    \/ \E t \in Threads : Saved(t)
    \/ Join
    \/ Truncate
    \/ FinalSave
    \/ Exit
    \/ Rerun

Spec == Init /\ [][Next]_vars

\* runs checked for termination: a tree of NumLive files under every policy
\* and pool size, and the large tree on the main thread and on one worker
LiveTree == [p \in {BulkPath(i) : i \in 1..NumLive} |-> D1]
InputsLive ==
    [tree : {LiveTree}, disk : {NoFile, FileOf(BulkPath(1) :> D2 @@ PZ :> D1)},
     existing : ExistingFileAction, processes : 0..MaxWorkers,
     remove_old_entries : {TRUE}]
    \cup
    [tree : {BulkTree}, disk : {NoFile}, existing : {"Nothing"},
     processes : {0, 1}, remove_old_entries : {FALSE}]

InitLive == InitWith(InputsLive)

\* the steps of one run of the program
RunStep ==
    \/ Dispatch
    \/ ForNext
    \/ \E w \in Workers : Pop(w)
    \/ \E t \in Threads : Lookup(t)
    \/ \E t \in Threads : Decide(t)
    \/ \E t \in Threads : Apply(t)
    \/ \E t \in Threads : Flush(t)
    \/ \E t \in Threads : Saved(t)
    \/ Join
    \/ Truncate
    \/ FinalSave
    \/ Exit

\* the scheduler runs some thread that can take a step; nothing obliges the
\* user to run the program again
SpecFair == InitLive /\ [][Next]_vars /\ WF_vars(RunStep)

\* -------------------------------------------------------------- read failures
\* compute_hash panics in process_file, lines 207 and 225: on the main thread
\* the process ends, on a worker only that thread ends (no lock is held)
HashPanics(t) ==
    /\ pc[t] = "decide"
    /\ hashes(args.existing, existing_hash[t])
    /\ read_fails(fs, cur[t])
    /\ hist' = [hist EXCEPT !.failed = TRUE, !.hashed[cur[t]] = @ + 1]
    /\ IF t = Main
       THEN /\ pc' = [pc EXCEPT ![Main] = "aborted"]
            /\ exit_code' = Some(101)
       ELSE /\ pc' = [pc EXCEPT ![t] = "panicked"]
            /\ UNCHANGED exit_code
    /\ UNCHANGED <<inputs, queue_lock, disk, file_db, db_lock, input_queue,
                   fail_due_to_difference, iter, locals, run_no>>

\* main, lines 286-288: the handles are joined in spawn order; join().unwrap()
\* panics at the first worker that panicked, once the workers before it have
\* ended, and the process ends with the threads still running
JoinPanics ==
    /\ pc[Main] = "join"
    /\ \E w \in Workers :
          /\ w <= args.processes
          /\ pc[w] = "panicked"
          /\ \A v \in 1..(w - 1) : pc[v] = "exited"
    /\ pc' = [t \in Threads |->
                IF t = Main THEN "aborted"
                ELSE IF pc[t] \in {"unspawned", "exited", "panicked"} THEN pc[t]
                ELSE "killed"]
    /\ exit_code' = Some(101)
    /\ UNCHANGED <<inputs, queue_lock, disk, file_db, db_lock, input_queue,
                   fail_due_to_difference, iter, locals, run_no, hist>>

NextIO ==
    \/ Next
    \/ \E t \in Threads : HashPanics(t)
    \/ JoinPanics

InitIO == InitWith(InputsIO)

SpecIO == InitIO /\ [][NextIO]_vars

\* --------------------------------------------------------- the sequential run
\* process_file run without interruption on a (ledger, flag) pair
process_file(st, f) ==
    LET existing == get_hash(st.db, f)
        d == IF hashes(args.existing, existing)
             THEN decide(args.existing, existing, compute_hash(fs, f))
             ELSE [db_hash |-> None, fail |-> FALSE]
        db1 == IF d.db_hash # None THEN add_file(st.db, f, d.db_hash[1]) ELSE st.db
        db2 == IF flush_needed(db1) THEN save_reset(db1) ELSE db1
    IN [db |-> db2, fail |-> (st.fail \/ d.fail)]

\* main, lines 263-266: process_file on every file, in the order of the set
RECURSIVE run_sequential(_, _)
run_sequential(st, fseq) ==
    IF fseq = <<>> THEN st
    ELSE run_sequential(process_file(st, Head(fseq)), Tail(fseq))

\* ------------------------------------------------------------------ claims
RECURSIVE SumLen(_, _)
SumLen(f, S) ==
    IF S = {} THEN 0
    ELSE LET x == CHOOSE y \in S : TRUE IN Len(f[x]) + SumLen(f, S \ {x})

\* number of record calls (add_file) made so far in this run
NumRecords == SumLen(hist.records, Paths)

Reconciled == pc[Main] = "final"

\* C1: once the workers are joined (before prune and the final save) the ledger's
\* path->digest mapping and the mismatch flag are those of the single-threaded
\* run on the same tree, ledger and policy, whatever the pool size and the
\* interleaving.
C1_PoolMatchesSequential ==
    Reconciled =>
        LET r == run_sequential([db |-> [files |-> hist.initial, change_count |-> 0],
                                 fail |-> FALSE], sort_by(files))
        IN /\ file_db.files = r.db.files
           /\ fail_due_to_difference = r.fail

C1_Witness ==
    /\ Reconciled
    /\ args.processes = MaxWorkers
    /\ NumRecords > Threshold
    /\ hist.flushes > 0

\* C2: the change counter equals the number of logical mutations since the last
\* save (or since load/creation): one per record call, one per pruned entry.
C2_ChangeCounter == file_db.change_count = hist.mutations

C2_Witness ==
    /\ pc[Main] = "final_save"
    /\ args.processes = MaxWorkers
    /\ hist.flushes > 0
    /\ PZ \in DOMAIN hist.initial
    /\ PZ \notin DOMAIN file_db.files
    /\ file_db.change_count > 0

\* text is the records of m, one "<digest> <path>" line per path, paths ascending
IsSnapshot(text, m) ==
    IF DOMAIN m = {} THEN text = <<>>
    ELSE LET ls == split(text, LF)
             pathOf(i) == CHOOSE p \in DOMAIN m : ls[i] = m[p] \o <<SP>> \o p
         IN /\ Len(ls) = Cardinality(DOMAIN m)
            /\ \A i \in 1..Len(ls) : \E p \in DOMAIN m : ls[i] = m[p] \o <<SP>> \o p
            /\ \A i \in 1..(Len(ls) - 1) : path_lt(pathOf(i), pathOf(i + 1))

SaveCompletes ==
    /\ run_no' = run_no
    /\ hist'.flushes + hist'.final_saves > hist.flushes + hist.final_saves

\* C3: when a save completes (an opportunistic flush or the final save) the
\* ledger file holds exactly the records of the in-memory mapping of that
\* instant, one per path in ascending path order, and the change counter is 0.
C3_SaveIsSnapshot ==
    [][SaveCompletes =>
          /\ disk'.exists
          /\ IsSnapshot(disk'.text, file_db'.files)
          /\ file_db'.change_count = 0]_vars

C3_Witness ==
    /\ hist.flushes > 0
    /\ args.processes = MaxWorkers
    /\ pc[Main] = "join"
    /\ db_lock = None
    /\ file_db.change_count = 0
    /\ Cardinality(DOMAIN file_db.files) > Threshold

\* reconciliation is under way: from the start of the run to the join
Reconciling == pc[Main] \in {"start", "for", "lookup", "decide", "apply", "flush",
                             "saved", "join"}

\* the entries of the in-memory ledger that the last written (or loaded) ledger
\* file does not hold: the mutations an ungraceful termination would lose
Unflushed ==
    {p \in DOMAIN file_db.files :
        p \notin DOMAIN hist.flushed \/ hist.flushed[p] # file_db.files[p]}

\* C4 as stated: during reconciliation at most threshold-minus-one (9) mutations
\* are in memory but not in the last flush.
C4_AtMostNineUnflushed ==
    Reconciling => Cardinality(Unflushed) <= Threshold - 1

\* C4 amended: during reconciliation at most 10 (the threshold) mutations are
\* unflushed whenever the ledger lock is free, and at most 11 at any point.
C4_UnflushedBound ==
    Reconciling =>
        /\ Cardinality(Unflushed) <= Threshold + 1
        /\ db_lock = None => Cardinality(Unflushed) <= Threshold

C4_Witness ==
    /\ Reconciling
    /\ db_lock = None
    /\ args.processes = MaxWorkers
    /\ Cardinality(Unflushed) = Threshold

\* C5: a run that applied more than 10 mutating actions during reconciliation
\* has saved at least once before the final save.
C5_FlushBeforeFinalSave ==
    (pc[Main] \in {"final", "final_save"} /\ NumRecords > Threshold)
        => hist.flushes >= 1 /\ hist.final_saves = 0

C5_Witness ==
    /\ pc[Main] = "final_save"
    /\ args.processes = MaxWorkers
    /\ NumRecords = Threshold + 1
    /\ hist.flushes = 1

\* the discovered paths stored at the start of the run with a digest that is
\* not the digest of the file's content
Drifted == {p \in files \cap DOMAIN hist.initial : hist.initial[p] # fs[p]}

RunEnded == pc[Main] = "done"

LinesOf(d) == IF d.exists THEN {split(d.text, LF)[i] : i \in 1..Len(split(d.text, LF))}
              ELSE {}

\* C6: under Check a drifted path keeps its stored digest, in memory and in
\* every ledger file written, and is never recorded.
C6_CheckDoesNotMutate ==
    args.existing = "Check" =>
        \A p \in Drifted :
            /\ p \in DOMAIN file_db.files
            /\ file_db.files[p] = hist.initial[p]
            /\ hist.records[p] = <<>>
            /\ hist.flushed[p] = hist.initial[p]
            /\ RunEnded =>
                 /\ format_line(hist.initial[p], p) \in LinesOf(disk)
                 /\ format_line(fs[p], p) \notin LinesOf(disk)

C6_Witness ==
    /\ args.existing = "Check"
    /\ RunEnded
    /\ args.processes = MaxWorkers
    /\ BulkPath(1) \in Drifted
    /\ hist.flushes + hist.final_saves > 0

\* C7: under Update a drifted path is recorded exactly once, with the fresh
\* digest, which is its entry at the end of the run; the mismatch flag is never
\* set and the exit status is 0.
C7_UpdateRecordsOnce ==
    args.existing = "Update" =>
        /\ ~fail_due_to_difference
        /\ \A p \in Drifted :
              /\ Len(hist.records[p]) <= 1
              /\ pc[Main] \in {"final", "final_save", "exit", "done"} =>
                    /\ hist.records[p] = <<fs[p]>>
                    /\ p \in DOMAIN file_db.files
                    /\ file_db.files[p] = fs[p]
        /\ RunEnded => exit_code = Some(0)

C7_Witness ==
    /\ args.existing = "Update"
    /\ RunEnded
    /\ args.processes = MaxWorkers
    /\ Drifted # {}

\* C8: a discovered path that is absent from the ledger when it is looked up is
\* recorded exactly once in the run, with the digest of its content, under each
\* policy and pool size.
C8_NewPathRecordedOnce ==
    /\ hist.missed \subseteq files
    /\ \A p \in hist.missed : Len(hist.records[p]) <= 1
    /\ pc[Main] \in {"final", "final_save", "exit", "done"} =>
          /\ files \ DOMAIN hist.initial \subseteq hist.missed
          /\ \A p \in hist.missed : hist.records[p] = <<fs[p]>>

C8_Witness ==
    /\ args.existing = "Check"
    /\ RunEnded
    /\ args.processes = MaxWorkers
    /\ Cardinality(hist.missed) > Threshold

\* C9: the exit status is nonzero exactly when the policy is Check and some
\* processed path had drifted; the flag starts false, is never cleared during a
\* run, is never set under Nothing or Update, and is read after the workers
\* have finished.
C9_StateRules ==
    /\ pc[Main] = "start" => ~fail_due_to_difference
    /\ fail_due_to_difference => args.existing = "Check"
    /\ exit_code # None =>
          /\ \A w \in Workers : pc[w] \in {"exited", "unspawned"}
          /\ exit_code \in {Some(0), Some(1)}
          /\ exit_code = Some(1) <=> (args.existing = "Check" /\ Drifted # {})

C9_ExitStatus ==
    /\ []C9_StateRules
    /\ [][(run_no' = run_no /\ fail_due_to_difference) => fail_due_to_difference']_vars
    /\ [][(exit_code = None /\ exit_code' # None) =>
             (pc[Main] = "exit" /\ exit_code' = Some(IF fail_due_to_difference THEN 1 ELSE 0))]_vars

C9_Witness ==
    /\ exit_code = Some(1)
    /\ args.processes = MaxWorkers
    /\ Cardinality(files) > 1

\* C10 as stated: a second run with policy Nothing on the unchanged tree, from
\* the ledger file the first run left, records nothing, keeps the change
\* counter at 0 and saves nothing.
C10_SecondRunIdle ==
    (run_no = 2 /\ args.existing = "Nothing") =>
        /\ NumRecords = 0
        /\ file_db.change_count = 0
        /\ hist.flushes + hist.final_saves = 0

\* the step in which main prunes the ledger
Prunes ==
    /\ pc[Main] = "final"
    /\ pc'[Main] = "final_save"
    /\ args.remove_old_entries

\* C11: prune removes exactly the entries whose path is not in the keep set,
\* leaves the digest of every kept entry as it was, and adds to the change
\* counter exactly the number of entries removed (0 when none is stale).
C11_PruneExact ==
    [][Prunes =>
          /\ DOMAIN file_db'.files = (DOMAIN file_db.files) \cap files
          /\ \A p \in DOMAIN file_db'.files : file_db'.files[p] = file_db.files[p]
          /\ file_db'.change_count =
                file_db.change_count + Cardinality((DOMAIN file_db.files) \ files)]_vars

C11_Witness ==
    /\ pc[Main] = "final_save"
    /\ args.remove_old_entries
    /\ {PA, PZ} \subseteq DOMAIN hist.initial
    /\ DOMAIN file_db.files = {PAS}
    /\ file_db.change_count = 3

\* C12 as stated: the ledger file a save has written loads back to the same
\* path->digest pairs, and saving what was loaded writes the same text again.
C12_SaveLoadRoundTrip ==
    (RunEnded /\ hist.flushes + hist.final_saves > 0) =>
        /\ load(disk.text).files = file_db.files
        /\ load(disk.text).change_count = 0
        /\ save_text(load(disk.text)) = disk.text

\* C13 as stated: once a read failure has occurred during checksum computation
\* no further path is processed, the ledger is not mutated again and the ledger
\* file is not written again, for every pool size.
C13_AbortIsImmediate ==
    [][hist.failed =>
          /\ hist'.processed = hist.processed
          /\ input_queue' = input_queue
          /\ file_db' = file_db
          /\ disk' = disk]_vars

Pooled == args.processes > 0

\* s is a suffix of q
IsSuffix(s, q) == Len(s) <= Len(q) /\ s = SubSeq(q, Len(q) - Len(s) + 1, Len(q))

\* q is the ascending list of the paths of S from some point on: a suffix of
\* sort_by(S)
IsSortedTail(q, S) ==
    /\ \A i \in 1..Len(q) : q[i] \in S
    /\ \A i \in 1..(Len(q) - 1) : path_lt(q[i], q[i + 1])
    /\ q # <<>> => \A p \in S : path_lt(q[1], p) => \E i \in 1..Len(q) : q[i] = p

\* C14: in a pooled run every discovered path is popped by exactly one worker
\* and processed exactly once; the queue only shrinks, and no two workers ever
\* hold the same path.
C14_StateRules ==
    Pooled =>
        /\ IsSortedTail(input_queue, files)
        /\ \A p \in Paths : hist.popped[p] <= 1 /\ hist.processed[p] <= hist.popped[p]
        /\ \A p \in Paths \ files : hist.popped[p] = 0
        /\ \A v, w \in Workers : (v # w /\ cur[v] # <<>>) => cur[v] # cur[w]
        /\ pc[Main] \in {"final", "final_save", "exit", "done"} =>
              \A p \in files : hist.popped[p] = 1 /\ hist.processed[p] = 1

C14_EachPathOnce ==
    /\ []C14_StateRules
    /\ [][(Pooled /\ run_no' = run_no) => IsSuffix(input_queue', input_queue)]_vars

C14_Witness ==
    /\ args.processes = MaxWorkers
    /\ pc[Main] = "final"
    /\ Cardinality(files) > Threshold
    /\ \A p \in files : hist.popped[p] = 1

\* thread t is inside compute_hash
Hashing(t) == pc[t] = "decide" /\ hashes(args.existing, existing_hash[t])

\* C15: a thread that is computing a checksum holds neither the queue lock nor
\* the ledger lock; the ledger lock is held only from the recording of the
\* digest to the end of the flush check (and by main from the prune on).
C15_NoLockWhileHashing ==
    /\ \A t \in Threads : Hashing(t) => (db_lock # Some(t) /\ queue_lock # Some(t))
    /\ \A w \in Workers : db_lock = Some(w) => pc[w] \in {"flush", "saved"}
    /\ \A w \in Workers : queue_lock = Some(w) => pc[w] = "pop"

C15_Witness ==
    \E v, w \in Workers :
        /\ v # w
        /\ Hashing(v)
        /\ db_lock = Some(w)
        /\ input_queue # <<>>

\* the discovered paths whose processing is a no-op: stored at the start of the
\* run, and either the policy is Nothing or the content's digest is the stored one
NoOpPaths ==
    {p \in files \cap DOMAIN hist.initial :
        args.existing = "Nothing" \/ fs[p] = hist.initial[p]}

\* thread t takes a step of process_file on a no-op path
NoOpStep(t) ==
    /\ cur[t] \in NoOpPaths
    /\ pc[t] \in {"lookup", "decide", "apply", "flush"}
    /\ pc'[t] # pc[t]

C16_StateRules ==
    /\ \A p \in NoOpPaths :
          /\ args.existing = "Nothing" => hist.hashed[p] = 0
          /\ hist.records[p] = <<>>
          /\ p \in DOMAIN file_db.files
          /\ file_db.files[p] = hist.initial[p]
          /\ p \notin hist.missed
    /\ NoOpPaths = files \cap DOMAIN hist.initial => ~fail_due_to_difference

\* C16: processing a path that is stored is a no-op under policy Nothing (no
\* checksum is computed) and, under Update or Check, when the recomputed digest
\* is the stored one: no record, entry and change counter as before, the
\* mismatch flag not set.
C16_NoOpFrame ==
    /\ []C16_StateRules
    /\ [][\A t \in Threads :
             NoOpStep(t) =>
                /\ file_db' = file_db
                /\ disk' = disk
                /\ fail_due_to_difference' = fail_due_to_difference]_vars

C16_Witness ==
    /\ args.existing = "Update"
    /\ args.processes = MaxWorkers
    /\ RunEnded
    /\ PA \in NoOpPaths
    /\ hist.hashed[PA] = 1
    /\ hist.processed[PAS] = 1

\* the run is over: main has exited normally, every spawned worker has left its
\* loop, and the whole path set has been processed
Completed ==
    /\ RunEnded
    /\ \A w \in Workers : pc[w] = (IF w <= args.processes THEN "exited" ELSE "unspawned")
    /\ \A p \in files : hist.processed[p] = 1
    /\ IF Pooled THEN input_queue = <<>> ELSE iter = <<>>

\* C17: with no read failure every run terminates, for every pool size and
\* path set: as long as the scheduler runs some thread that can take a step,
\* a started run reaches its end with the workers joined and the whole path set
\* processed (so no state blocks the threads forever on a lock).
C17_RunTerminates == (pc[Main] = "start") ~> Completed

C17_Witness ==
    /\ Completed
    /\ run_no = MaxRuns
    /\ args.processes = MaxWorkers
    /\ Cardinality(files) = NumLive
    /\ fail_due_to_difference

\* C18: during reconciliation the change counter is at most 10 whenever the
\* ledger lock is free and at most 11 at all; a counter above 10 is seen only by
\* the thread that holds the lock inside a call that recorded a mutation, which
\* writes the ledger file and resets the counter to 0 before it releases the
\* lock, so the flush check fires only in a call that recorded a mutation.
C18_StateRules ==
    Reconciling =>
        /\ file_db.change_count <= Threshold + 1
        /\ db_lock = None => file_db.change_count <= Threshold
        /\ file_db.change_count > Threshold =>
              \E t \in Threads : /\ db_lock = Some(t)
                                 /\ pc[t] \in {"flush", "saved"}
                                 /\ db_hash[t] # None
        /\ \A t \in Threads : pc[t] = "saved" => db_hash[t] # None /\ db_lock = Some(t)

C18_CounterBound ==
    /\ []C18_StateRules
    /\ [][Reconciling =>
            /\ \A t \in Threads : (pc[t] = "flush" /\ pc'[t] = "saved") => db_hash[t] # None
            /\ (db_lock # None /\ db_lock' = None) =>
                  /\ file_db'.change_count <= Threshold
                  /\ file_db.change_count > Threshold =>
                        /\ file_db'.change_count = 0
                        /\ disk'.exists
                        /\ IsSnapshot(disk'.text, file_db'.files)]_vars

C18_Witness ==
    \E w \in Workers :
        /\ args.processes = MaxWorkers
        /\ pc[w] = "saved"
        /\ file_db.change_count = Threshold + 1
        /\ hist.flushed = file_db.files
        /\ input_queue # <<>>

\* some ledger mutation happened in this run: a record call (add or update) or
\* the removal of a loaded entry
Mutated == NumRecords > 0 \/ (DOMAIN hist.initial) \ (DOMAIN file_db.files) # {}

\* C19: at the normal end of a run the change counter is 0; if a mutation
\* happened in the run, the ledger file holds exactly the records of the
\* final mapping; if none happened, the run made no write of the ledger file
\* (and no step of any run changes the file before a mutation).
C19_StateRules ==
    RunEnded =>
        /\ file_db.change_count = 0
        /\ Mutated => disk.exists /\ IsSnapshot(disk.text, file_db.files)
        /\ ~Mutated => hist.flushes + hist.final_saves = 0

C19_CompletionState ==
    /\ []C19_StateRules
    /\ [][(disk' # disk) => (Mutated /\ run_no' = run_no)]_vars

C19_Witness ==
    /\ RunEnded
    /\ args.processes = MaxWorkers
    /\ hist.flushes > 0
    /\ hist.final_saves = 1
    /\ (DOMAIN hist.initial) \ (DOMAIN file_db.files) # {}

\* C20: while the run reconciles, with workers possibly running, no step
\* removes a ledger key; a step that removes one is main's prune, taken when
\* every spawned worker has exited; and at the normal end of a run the key
\* set is the discovered path set when prune is enabled, and the loaded paths
\* together with the discovered path set when it is not.
C20_StateRules ==
    /\ Reconciling => DOMAIN hist.initial \subseteq DOMAIN file_db.files
    /\ RunEnded =>
          DOMAIN file_db.files = IF args.remove_old_entries
                                 THEN files
                                 ELSE (DOMAIN hist.initial) \cup files

C20_KeySet ==
    /\ []C20_StateRules
    /\ [][run_no' = run_no =>
            /\ Reconciling => DOMAIN file_db.files \subseteq DOMAIN file_db'.files
            /\ ~(DOMAIN file_db.files \subseteq DOMAIN file_db'.files) =>
                  /\ Prunes
                  /\ \A w \in Workers : pc[w] \in {"exited", "unspawned"}]_vars

C20_Witness ==
    /\ RunEnded
    /\ args.processes = MaxWorkers
    /\ args.remove_old_entries
    /\ (DOMAIN hist.initial) \ files # {}
    /\ files \ (DOMAIN hist.initial) # {}
    /\ DOMAIN file_db.files = files

====
